---- MODULE Spec2Model ----
(***************************************************************************)
(* A model of asciify (src/main.go): the image-to-text pipeline of main,   *)
(* with resize, parseResize and luminance translated from their code.      *)
(*                                                                         *)
(* The program computes in float64.  The float64 operations it uses are    *)
(* modelled exactly: a non-negative float64 is a record [m, e] standing    *)
(* for m * 2^e, m an arbitrary-precision natural kept as a little-endian   *)
(* sequence of 15-bit limbs, and every operation rounds its exact result   *)
(* to 53 significant bits, ties to even, as IEEE 754 binary64 does.        *)
(* Exponents stay far inside the binary64 range for every value the model  *)
(* reaches, so overflow, subnormals, infinities and NaN do not arise.      *)
(***************************************************************************)
EXTENDS Integers, Sequences, FiniteSets, TLC

(***************************************************************************)
(* Arbitrary-precision naturals                                            *)
(***************************************************************************)
LimbBits == 14 + 1

LimbBase == 2 ^ LimbBits

RECURSIVE Trim(_)
Trim(a) ==
    IF a = <<>> THEN <<>>
    ELSE IF a[Len(a)] = 0 THEN Trim(SubSeq(a, 1, Len(a) - 1))
    ELSE a

RECURSIVE BFromInt(_)
BFromInt(n) ==
    IF n = 0 THEN <<>> ELSE <<n % LimbBase>> \o BFromInt(n \div LimbBase)

RECURSIVE BToInt(_)
BToInt(a) ==
    IF a = <<>> THEN 0 ELSE a[1] + LimbBase * BToInt(Tail(a))

RECURSIVE BAddC(_, _, _)
BAddC(a, b, c) ==
    IF a = <<>> /\ b = <<>> THEN BFromInt(c)
    ELSE LET x == IF a = <<>> THEN 0 ELSE a[1]
             y == IF b = <<>> THEN 0 ELSE b[1]
             t == x + y + c
         IN  <<t % LimbBase>>
                \o BAddC(IF a = <<>> THEN a ELSE Tail(a),
                         IF b = <<>> THEN b ELSE Tail(b),
                         t \div LimbBase)

BAdd(a, b) == Trim(BAddC(a, b, 0))

RECURSIVE BMulC(_, _, _)
BMulC(a, d, c) ==
    IF a = <<>> THEN BFromInt(c)
    ELSE LET t == a[1] * d + c
         IN  <<t % LimbBase>> \o BMulC(Tail(a), d, t \div LimbBase)

\* a * d for a one-limb d
BMulSmall(a, d) == Trim(BMulC(a, d, 0))

RECURSIVE BMulRec(_, _)
BMulRec(a, b) ==
    IF b = <<>> THEN <<>>
    ELSE BAddC(BMulC(a, b[1], 0), <<0>> \o BMulRec(a, Tail(b)), 0)

BMul(a, b) == Trim(BMulRec(a, b))

\* quotient and remainder of a by d, 1 <= d < 2^16
RECURSIVE BDivRem(_, _)
BDivRem(a, d) ==
    IF a = <<>> THEN [q |-> <<>>, r |-> 0]
    ELSE LET hi  == BDivRem(Tail(a), d)
             cur == hi.r * LimbBase + a[1]
         IN  [q |-> <<cur \div d>> \o hi.q, r |-> cur % d]

BDiv(a, d) == Trim(BDivRem(a, d).q)

BShl(a, k) ==
    IF a = <<>> THEN <<>>
    ELSE [i \in 1..(k \div LimbBits) |-> 0] \o BMulSmall(a, 2 ^ (k % LimbBits))

BShr(a, k) ==
    IF Len(a) <= k \div LimbBits THEN <<>>
    ELSE BDiv(SubSeq(a, (k \div LimbBits) + 1, Len(a)), 2 ^ (k % LimbBits))

RECURSIVE IntBitLen(_)
IntBitLen(n) == IF n = 0 THEN 0 ELSE 1 + IntBitLen(n \div 2)

BitLen(a) ==
    IF a = <<>> THEN 0 ELSE LimbBits * (Len(a) - 1) + IntBitLen(a[Len(a)])

BOdd(a) == a # <<>> /\ a[1] % 2 = 1

RECURSIVE BLeq(_, _)
BLeq(a, b) ==
    IF Len(a) # Len(b) THEN Len(a) < Len(b)
    ELSE IF a = <<>> THEN TRUE
    ELSE IF a[Len(a)] # b[Len(b)] THEN a[Len(a)] < b[Len(b)]
    ELSE BLeq(SubSeq(a, 1, Len(a) - 1), SubSeq(b, 1, Len(b) - 1))

(***************************************************************************)
(* float64 arithmetic                                                      *)
(***************************************************************************)
\* significant bits of a float64
MantBits == 53

\* round m * 2^e to the nearest float64, ties to even
Round(m, e) ==
    IF BitLen(m) <= MantBits THEN [m |-> m, e |-> e]
    ELSE LET s      == BitLen(m) - MantBits
             q2     == BShr(m, s - 1)
             sticky == BShl(q2, s - 1) # m
             q      == BShr(q2, 1)
             up     == BOdd(q2) /\ (sticky \/ BOdd(q))
         IN  [m |-> IF up THEN BAdd(q, <<1>>) ELSE q, e |-> e + s]

\* float64(n) for a small natural n
FromInt(n) == [m |-> BFromInt(n), e |-> 0]

\* float64(x) / float64(d) for naturals x and 1 <= d < 2^16: the quotient to
\* more than 53 bits with a sticky bit for the remainder, then rounded
FDivInt(x, d) ==
    LET dr == BDivRem(BShl(BFromInt(x), 70), d)
        q  == Trim(dr.q)
    IN  Round(BAdd(BShl(q, 1), IF dr.r # 0 THEN <<1>> ELSE <<>>), 0 - 71)

\* the exact product and the exact sum, before rounding
XMul(a, b) == [m |-> BMul(a.m, b.m), e |-> a.e + b.e]

XAdd(a, b) ==
    LET e == IF a.e < b.e THEN a.e ELSE b.e
    IN  [m |-> BAdd(BShl(a.m, a.e - e), BShl(b.m, b.e - e)), e |-> e]

FMul(a, b) == Round(XMul(a, b).m, XMul(a, b).e)

FAdd(a, b) == Round(XAdd(a, b).m, XAdd(a, b).e)

\* x*y + z with a single rounding, as a fused multiply-add instruction computes
FMA(x, y, z) == Round(XAdd(XMul(x, y), z).m, XAdd(XMul(x, y), z).e)

\* int(a): truncation
FTrunc(a) ==
    IF a.e >= 0 THEN BToInt(BShl(a.m, a.e)) ELSE BToInt(BShr(a.m, 0 - a.e))

FLeq(a, b) ==
    LET e == IF a.e < b.e THEN a.e ELSE b.e
    IN  BLeq(BShl(a.m, a.e - e), BShl(b.m, b.e - e))

FEq(a, b) == FLeq(a, b) /\ FLeq(b, a)


(***************************************************************************)
(* Strings are sequences of one-character strings.                         *)
(***************************************************************************)
HasSuffix(s, suffix) ==
    /\ Len(s) >= Len(suffix)
    /\ SubSeq(s, Len(s) - Len(suffix) + 1, Len(s)) = suffix

\* the position of the first sep in s, 0 when there is none
RECURSIVE IndexFrom(_, _, _)
IndexFrom(s, sep, i) ==
    IF i > Len(s) THEN 0
    ELSE IF s[i] = sep THEN i
    ELSE IndexFrom(s, sep, i + 1)

\* strings.SplitN(s, sep, 2) for a one-character sep
SplitN2(s, sep) ==
    LET i == IndexFrom(s, sep, 1)
    IN  IF i = 0 THEN <<s>>
        ELSE <<SubSeq(s, 1, i - 1), SubSeq(s, i + 1, Len(s))>>

Digits == <<"0", "1", "2", "3", "4", "5", "6", "7", "8", "9">>

IsDigit(c) == \E d \in 1..Len(Digits) : Digits[d] = c

DigitVal(c) == (CHOOSE d \in 1..Len(Digits) : Digits[d] = c) - 1

RECURSIVE DecimalValue(_)
DecimalValue(s) ==
    IF s = <<>> THEN 0
    ELSE 10 * DecimalValue(SubSeq(s, 1, Len(s) - 1)) + DigitVal(s[Len(s)])

\* strconv.ParseUint(s, 10, 32): an empty string and any character that is
\* not a decimal digit (a sign included) are syntax errors.  The strings of
\* the model are shorter than ten characters, so the value always fits the
\* 32 bits and the range error cannot arise.
ParseUint(s) ==
    IF s = <<>> \/ \E i \in 1..Len(s) : ~IsDigit(s[i])
    THEN [val |-> 0, err |-> "ErrSyntax"]
    ELSE [val |-> DecimalValue(s), err |-> "nil"]

(***************************************************************************)
(* Colours and images.  A colour is an 8-bit non-premultiplied NRGBA value *)
(* (what image.NRGBA stores and its At returns); an image is its size and  *)
(* its pixels.  The decoded input is taken to be an NRGBA image, so that   *)
(* the colour conversion of Set in resize leaves every sample as it is.    *)
(***************************************************************************)
ZeroColor == [R |-> 0, G |-> 0, B |-> 0, A |-> 0]

\* color.NRGBA.RGBA(): 16-bit channels, alpha-premultiplied
RGBA(c) ==
    << (c.R * 257 * c.A) \div 255,
       (c.G * 257 * c.A) \div 255,
       (c.B * 257 * c.A) \div 255,
       c.A * 257 >>

\* img.At(x, y): the zero colour outside the bounds
At(image, x, y) ==
    IF <<x, y>> \in DOMAIN image.pix THEN image.pix[<<x, y>>] ELSE ZeroColor

MaxUint16 == 65535

\* The registry of character ramps.  A ramp is the sequence of the bytes of
\* its string (indexing a Go string yields bytes; every character of the
\* ramp is one byte of ASCII): 46 is '.', 39 is the apostrophe, ..., 36 is '$'.
ChararacterSets ==
    [name \in {<<"a", "s", "c", "i", "i">>} |->
    <<
       46, 39, 96, 94, 34, 44, 58, 59, 73, 108, 33, 105,
       62, 60, 126, 43, 95, 45, 63, 93, 91, 125, 123, 49,
       41, 40, 124, 92, 47, 116, 102, 106, 114, 120, 110, 117,
       118, 99, 122, 88, 89, 85, 74, 67, 76, 81, 48, 79,
       90, 109, 119, 113, 112, 100, 98, 107, 104, 97, 111, 42,
       35, 77, 87, 38, 56, 37, 66, 64, 36
    >>]

(***************************************************************************)
(* luminance (src/main.go:35-43).  build names how the compiler evaluates  *)
(* (a*x + b*y) + c*z: the language lets it fuse a product and the sum that *)
(* uses it into one multiply-add with a single rounding, and some targets  *)
(* do.  The inner sum may fuse its first or its second product, the outer  *)
(* sum its product; without fusion every product and sum is rounded.       *)
(***************************************************************************)
Builds ==
    [inner : {"separate", "fusedFirst", "fusedSecond"}, outer : {"separate", "fused"}]

DefaultBuild == [inner |-> "separate", outer |-> "separate"]

WeightedSum(wr, wg, wb, red, green, blue, build) ==
    LET inner == IF build.inner = "separate" THEN FAdd(FMul(wr, red), FMul(wg, green))
                 ELSE IF build.inner = "fusedFirst" THEN FMA(wr, red, FMul(wg, green))
                 ELSE FMA(wg, green, FMul(wr, red))
    IN  IF build.outer = "separate" THEN FAdd(inner, FMul(wb, blue))
        ELSE FMA(wb, blue, inner)

luminanceWrongWeight(color, build) ==
    LET rgba == RGBA(color)
    IN  WeightedSum(FDivInt(3, 10), FDivInt(587, 1000), FDivInt(114, 1000),
                    FDivInt(rgba[1], MaxUint16), FDivInt(rgba[2], MaxUint16),
                    FDivInt(rgba[3], MaxUint16), build)

luminance(color, build) ==
    LET rgba == RGBA(color)
    IN  WeightedSum(FDivInt(299, 1000), FDivInt(587, 1000), FDivInt(114, 1000),
                    FDivInt(rgba[1], MaxUint16), FDivInt(rgba[2], MaxUint16),
                    FDivInt(rgba[3], MaxUint16), build)

charIndexRounded(n, lum) == FTrunc(FAdd(FMul(FromInt(n), lum), FDivInt(1, 2)))

\* int(float64(len(charset)) * lum)  (src/main.go:176)
charIndex(n, lum) == FTrunc(FMul(FromInt(n), lum))

(***************************************************************************)
(* resize (src/main.go:45-59)                                              *)
(***************************************************************************)
SourceCoordCeil(t, tsize, ssize) ==
    FTrunc(FMul(FDivInt(t + 1, tsize), FromInt(ssize)))

\* int((float64(x) / float64(width)) * float64(inputBounds.X)), 0 <= t < tsize
SourceCoord(t, tsize, ssize) ==
    FTrunc(FMul(FDivInt(t, tsize), FromInt(ssize)))

\* image.Rect(0, 0, width, height): a well-formed rectangle, the corners
\* swapped where a maximum is below the minimum
Rect(width, height) ==
    [x0 |-> IF width < 0 THEN width ELSE 0, x1 |-> IF width < 0 THEN 0 ELSE width,
     y0 |-> IF height < 0 THEN height ELSE 0, y1 |-> IF height < 0 THEN 0 ELSE height]

RectPoints(r) == (r.x0 .. r.x1 - 1) \X (r.y0 .. r.y1 - 1)

\* image.NewNRGBA: every pixel the zero colour
NewNRGBA(r) ==
    [X |-> r.x1 - r.x0, Y |-> r.y1 - r.y0, pix |-> [p \in RectPoints(r) |-> ZeroColor]]

\* the image the two loops leave: output.Set(x, y, img.At(ix, iy)) for every
\* 0 <= x < width, 0 <= y < height
resize(image, width, height) ==
    LET output == NewNRGBA(Rect(width, height))
    IN  [output EXCEPT !.pix =
            [p \in DOMAIN output.pix |->
                IF p[1] >= 0 /\ p[1] < width /\ p[2] >= 0 /\ p[2] < height
                THEN At(image, SourceCoord(p[1], width, image.X),
                               SourceCoord(p[2], height, image.Y))
                ELSE output.pix[p]]]

(***************************************************************************)
(* parseResize (src/main.go:61-87)                                         *)
(***************************************************************************)
ParseUintLenient(s) ==
    IF \E i \in 1..Len(s) : ~IsDigit(s[i])
    THEN [val |-> 0, err |-> "ErrSyntax"]
    ELSE [val |-> DecimalValue(s), err |-> "nil"]

parseResizeLenient(value, image) ==
    IF Len(value) < 1 THEN [w |-> image.X, h |-> image.Y, err |-> "nil"]
    ELSE LET split == SplitN2(value, "x")
         IN  IF Len(split) < 2 THEN [w |-> 0, h |-> 0, err |-> "invalid resize value"]
             ELSE LET width  == ParseUintLenient(split[1])
                      height == ParseUintLenient(split[2])
                  IN  IF width.err # "nil" THEN [w |-> 0, h |-> 0, err |-> width.err]
                      ELSE IF height.err # "nil" THEN [w |-> 0, h |-> 0, err |-> height.err]
                      ELSE [w |-> width.val, h |-> height.val, err |-> "nil"]

parseResizeRejectZero(value, image) ==
    IF Len(value) < 1 THEN [w |-> image.X, h |-> image.Y, err |-> "nil"]
    ELSE LET split == SplitN2(value, "x")
         IN  IF Len(split) < 2 THEN [w |-> 0, h |-> 0, err |-> "invalid resize value"]
             ELSE LET width  == ParseUint(split[1])
                      height == ParseUint(split[2])
                  IN  IF width.err # "nil" \/ width.val = 0
                      THEN [w |-> 0, h |-> 0, err |-> "ErrSyntax"]
                      ELSE IF height.err # "nil" \/ height.val = 0
                      THEN [w |-> 0, h |-> 0, err |-> "ErrSyntax"]
                      ELSE [w |-> width.val, h |-> height.val, err |-> "nil"]

parseResize(value, image) ==
    IF Len(value) < 1 THEN [w |-> image.X, h |-> image.Y, err |-> "nil"]
    ELSE LET split == SplitN2(value, "x")
         IN  IF Len(split) < 2 THEN [w |-> 0, h |-> 0, err |-> "invalid resize value"]
             ELSE LET width  == ParseUint(split[1])
                      height == ParseUint(split[2])
                  IN  IF width.err # "nil" THEN [w |-> 0, h |-> 0, err |-> width.err]
                      ELSE IF height.err # "nil" THEN [w |-> 0, h |-> 0, err |-> height.err]
                      ELSE [w |-> width.val, h |-> height.val, err |-> "nil"]

(***************************************************************************)
(* State.  main runs once, from "start" to "done" (a normal return),       *)
(* "exit" (help was written) or "panic".  The l- and r- variables are the  *)
(* state of the per-pixel mapping and of resize taken on their own.        *)
(***************************************************************************)
VARIABLES
    pc, args, opts, charset, img, ow, oh, processedImg, result,
    stdout, file, err,
    lpc, lbuild, lcolor, llum, lidx,
    rpc, rimg, rvalue, rscale, rwidth, rheight, rx, ry, routput, rreads, rdivisors

mainVars ==
    <<pc, args, opts, charset, img, ow, oh, processedImg, result, stdout, file, err>>

lumVars == <<lpc, lbuild, lcolor, llum, lidx>>

resizeVars ==
    <<rpc, rimg, rvalue, rscale, rwidth, rheight, rx, ry, routput, rreads, rdivisors>>

vars == <<mainVars, lumVars, resizeVars>>

NoImage == [X |-> 0, Y |-> 0, pix |-> <<>>]

MainIdle ==
    /\ args = <<>>
    /\ opts = <<>>
    /\ charset = <<>>
    /\ img = NoImage
    /\ ow = 0
    /\ oh = 0
    /\ processedImg = NoImage
    /\ result = <<>>
    /\ stdout = <<>>
    /\ file = <<>>
    /\ err = "nil"

LumIdle ==
    /\ lpc = "idle"
    /\ lbuild = DefaultBuild
    /\ lcolor = ZeroColor
    /\ llum = FromInt(0)
    /\ lidx = 0

ResizeIdle ==
    /\ rpc = "idle"
    /\ rimg = NoImage
    /\ rvalue = <<>>
    /\ rscale = [neg |-> FALSE, num |-> 0, den |-> 1]
    /\ rwidth = 0
    /\ rheight = 0
    /\ rx = 0
    /\ ry = 0
    /\ routput = NoImage
    /\ rreads = {}
    /\ rdivisors = {}

(***************************************************************************)
(* The mapping of one pixel (src/main.go:175-176), over a set of colours   *)
(***************************************************************************)
Asciii == <<"a", "s", "c", "i", "i">>

Alphas == {0, 128, 255}

GrayLevels == {v \in 0..255 : v % 3 = 0}

Levels == {0, 1, 51, 128, 254, 255}

Samples ==
    {[R |-> v, G |-> v, B |-> v, A |-> a] : v \in GrayLevels, a \in Alphas}
        \cup [R : Levels, G : Levels, B : Levels, A : Alphas]

LumInit ==
    /\ lpc = "pixel"
    /\ lbuild \in Builds
    /\ lcolor \in Samples
    /\ llum = FromInt(0)
    /\ lidx = 0
    /\ pc = "idle"
    /\ MainIdle
    /\ ResizeIdle

\* lum := luminance(processedImg.At(x, y)); char := charset[int(...)]:
\* indexing outside the string panics
MapPixel ==
    /\ lpc = "pixel"
    /\ LET lum == luminance(lcolor, lbuild)
           i   == charIndex(Len(ChararacterSets[Asciii]), lum)
       IN  /\ llum' = lum
           /\ lidx' = i
           /\ lpc' = IF i >= 0 /\ i < Len(ChararacterSets[Asciii])
                     THEN "mapped" ELSE "panic"
    /\ UNCHANGED <<lbuild, lcolor, mainVars, resizeVars>>

LumNext == MapPixel

SpecLum == LumInit /\ [][LumNext]_vars

(***************************************************************************)
(* main (src/main.go:89-209), one stage a step                             *)
(***************************************************************************)
MaxStrLen == 3

MaxImgW == 2

MaxImgH == 2

\* the command line: the values of --resize are all the strings over these
\* characters up to MaxStrLen long
ResizeAlphabet == {"0", "2", "x", "X"}

ResizeValues == UNION {[1..k -> ResizeAlphabet] : k \in 0..MaxStrLen}

\* --scale, a decimal num/den with a sign; its float64 is the nearest one
Scales ==
    {[neg |-> FALSE, num |-> 0, den |-> 1], [neg |-> FALSE, num |-> 1, den |-> 2],
     [neg |-> FALSE, num |-> 2, den |-> 1], [neg |-> TRUE, num |-> 1, den |-> 1]}

CharsetNames == {Asciii, <<"x", "y", "z">>}

OutputNames == {<<>>, <<"o">>}

InputNames ==
    {<<"a", ".", "p", "n", "g">>, <<"a", ".", "j", "p", "g">>,
     <<"a", ".", "g", "i", "f">>}

ArgLists == {<<>>} \cup {<<n>> : n \in InputNames}

OptionsSet ==
    [Verbose : BOOLEAN, Output : OutputNames, Resize : ResizeValues,
     Charset : CharsetNames, Scale : Scales]

\* the decoded images: opaque black, white and grey, and half-transparent
\* and fully transparent white, laid out so that neighbours differ
Palette ==
    << [R |-> 0, G |-> 0, B |-> 0, A |-> 255],
       [R |-> 255, G |-> 255, B |-> 255, A |-> 255],
       [R |-> 51, G |-> 51, B |-> 51, A |-> 255],
       [R |-> 255, G |-> 255, B |-> 255, A |-> 128],
       [R |-> 255, G |-> 0, B |-> 0, A |-> 255],
       [R |-> 255, G |-> 255, B |-> 255, A |-> 0] >>

PatternImage(w, h) ==
    [X |-> w, Y |-> h,
     pix |-> [p \in (0..w - 1) \X (0..h - 1) |->
                 Palette[((p[1] + 2 * p[2]) % Len(Palette)) + 1]]]

ImageSizes == (1..MaxImgW) \X (1..MaxImgH)

Images == {PatternImage(sz[1], sz[2]) : sz \in ImageSizes}

Init ==
    /\ pc = "start"
    /\ MainIdle
    /\ LumIdle
    /\ ResizeIdle

Verbose(out, on, message) ==
    IF on THEN Append(out, [kind |-> "verbose", text |-> message]) ELSE out

\* flags.Parse (src/main.go:90-100): the options and the arguments, or the
\* help (return), or an error (panic)
ParseFlags ==
    /\ pc = "start"
    /\ \E outcome \in {"parsed", "help", "error"} :
        IF outcome = "parsed"
        THEN /\ opts' \in OptionsSet
             /\ args' \in ArgLists
             /\ pc' = "args"
             /\ err' = err
        ELSE /\ pc' = IF outcome = "help" THEN "exit" ELSE "panic"
             /\ err' = IF outcome = "help" THEN err ELSE "flags"
             /\ UNCHANGED <<opts, args>>
    /\ UNCHANGED <<charset, img, ow, oh, processedImg, result, stdout, file,
                   lumVars, resizeVars>>

\* src/main.go:102-108
CheckArgs ==
    /\ pc = "args"
    /\ IF Len(args) < 1
       THEN pc' = "panic" /\ err' = "ErrNoInput"
       ELSE IF /\ ~HasSuffix(args[1], <<".", "p", "n", "g">>)
               /\ ~HasSuffix(args[1], <<".", "j", "p", "g">>)
               /\ ~HasSuffix(args[1], <<".", "j", "p", "e", "g">>)
       THEN pc' = "panic" /\ err' = "unknown image format"
       ELSE pc' = "charset" /\ err' = err
    /\ UNCHANGED <<args, opts, charset, img, ow, oh, processedImg, result,
                   stdout, file, lumVars, resizeVars>>

lookupAnyCharset(name) ==
    IF name \in DOMAIN ChararacterSets
    THEN [charset |-> ChararacterSets[name], ok |-> TRUE]
    ELSE [charset |-> ChararacterSets[Asciii], ok |-> TRUE]

\* charset, ok := ChararacterSets[opts.Charset]
lookupCharset(name) ==
    IF name \in DOMAIN ChararacterSets
    THEN [charset |-> ChararacterSets[name], ok |-> TRUE]
    ELSE [charset |-> <<>>, ok |-> FALSE]

\* src/main.go:110-118
LookupCharset ==
    /\ pc = "charset"
    /\ LET found == lookupCharset(opts.Charset)
       IN  IF ~found.ok
           THEN /\ pc' = "panic"
                /\ err' = "unknown character set"
                /\ UNCHANGED <<charset, stdout>>
           ELSE /\ charset' = found.charset
                /\ stdout' = Verbose(stdout, opts.Verbose, "Found character set")
                /\ pc' = "open"
                /\ err' = err
    /\ UNCHANGED <<args, opts, img, ow, oh, processedImg, result, file,
                   lumVars, resizeVars>>

\* os.Open (src/main.go:120-130): the file opens or it does not
OpenInput ==
    /\ pc = "open"
    /\ \E opened \in BOOLEAN :
        IF ~opened
        THEN pc' = "panic" /\ err' = "open" /\ stdout' = stdout
        ELSE /\ stdout' = Verbose(stdout, opts.Verbose, "Opened input image")
             /\ pc' = "decode"
             /\ err' = err
    /\ UNCHANGED <<args, opts, charset, img, ow, oh, processedImg, result, file,
                   lumVars, resizeVars>>

\* png.Decode or jpeg.Decode by the suffix (src/main.go:132-150): an image
\* or an error
DecodeImage ==
    /\ pc = "decode"
    /\ \E decoded \in Images \cup {NoImage} :
        IF decoded = NoImage
        THEN /\ pc' = "panic"
             /\ err' = IF HasSuffix(args[1], <<".", "p", "n", "g">>)
                       THEN "png decode" ELSE "jpeg decode"
             /\ UNCHANGED <<img, stdout>>
        ELSE /\ img' = decoded
             /\ stdout' = Verbose(stdout, opts.Verbose, "Successfully parsed input image")
             /\ pc' = "dims"
             /\ err' = err
    /\ UNCHANGED <<args, opts, charset, ow, oh, processedImg, result, file,
                   lumVars, resizeVars>>

\* int(float64(size) * opts.Scale): the product rounded to a float64, then
\* truncated towards zero
scaleDim(size, scale) ==
    LET magnitude == FTrunc(FMul(FromInt(size), FDivInt(scale.num, scale.den)))
    IN  IF scale.neg THEN 0 - magnitude ELSE magnitude

resolveSpecFirst(parsed, value, size, scale) ==
    IF scale.num # 0 /\ Len(value) < 1
    THEN [ow |-> scaleDim(size.X, scale), oh |-> scaleDim(size.Y, scale)]
    ELSE [ow |-> parsed.w, oh |-> parsed.h]

\* ow, oh after src/main.go:152-163, parseResize having returned parsed
\* without an error
resolve(parsed, value, size, scale) ==
    IF scale.num # 0
    THEN [ow |-> scaleDim(size.X, scale), oh |-> scaleDim(size.Y, scale)]
    ELSE [ow |-> parsed.w, oh |-> parsed.h]

\* src/main.go:152-163
ResolveDimensions ==
    /\ pc = "dims"
    /\ LET parsed == parseResize(opts.Resize, img)
           dims   == resolve(parsed, opts.Resize, img, opts.Scale)
       IN  IF parsed.err # "nil"
           THEN pc' = "panic" /\ err' = parsed.err /\ UNCHANGED <<ow, oh>>
           ELSE pc' = "resize" /\ err' = err /\ ow' = dims.ow /\ oh' = dims.oh
    /\ UNCHANGED <<args, opts, charset, img, processedImg, result, stdout, file,
                   lumVars, resizeVars>>

\* src/main.go:165-169
Resize ==
    /\ pc = "resize"
    /\ processedImg' = resize(img, ow, oh)
    /\ stdout' = Verbose(stdout, opts.Verbose, "Resized image")
    /\ pc' = "render"
    /\ UNCHANGED <<args, opts, charset, img, ow, oh, result, file, err,
                   lumVars, resizeVars>>

NewLine == 10

PixelColors == {Palette[i] : i \in 1..Len(Palette)} \cup {ZeroColor}

RampLengths == {Len(ChararacterSets[n]) : n \in DOMAIN ChararacterSets}

\* int(float64(len(charset)) * lum) of lines 175-176, tabulated for each
\* ramp length, each build and each colour the images hold (@@ makes the
\* table an explicit function, so that an entry is computed once)
GlyphTable ==
    [k \in RampLengths \X Builds \X PixelColors |->
        charIndex(k[1], luminance(k[3], k[2]))] @@ <<>>

\* the glyph index of the pixel at (x, y): lines 175-176
glyphAt(image, ramp, x, y, b) ==
    LET c == At(image, x, y)
    IN  IF c \in PixelColors /\ Len(ramp) \in RampLengths
        THEN GlyphTable[<<Len(ramp), b, c>>]
        ELSE charIndex(Len(ramp), luminance(c, b))

RECURSIVE renderRowFrom(_, _, _, _, _, _)
renderRowFrom(image, ramp, width, x, y, b) ==
    IF x >= width THEN <<>>
    ELSE <<ramp[glyphAt(image, ramp, x, y, b) + 1]>>
            \o renderRowFrom(image, ramp, width, x + 1, y, b)

RECURSIVE renderTrailingNewline(_, _, _, _, _, _)
renderTrailingNewline(image, ramp, width, height, y, b) ==
    IF y >= height THEN <<>>
    ELSE renderRowFrom(image, ramp, width, 0, y, b) \o <<NewLine>>
            \o renderTrailingNewline(image, ramp, width, height, y + 1, b)

\* the buffer the loops of src/main.go:173-188 fill from row y on
RECURSIVE render(_, _, _, _, _, _)
render(image, ramp, width, height, y, b) ==
    IF y >= height THEN <<>>
    ELSE renderRowFrom(image, ramp, width, 0, y, b)
            \o (IF y + 1 # height THEN <<NewLine>> ELSE <<>>)
            \o render(image, ramp, width, height, y + 1, b)

\* src/main.go:171-188, for each way the build may evaluate luminance: an
\* index outside the ramp panics and nothing has been written
Render ==
    /\ pc = "render"
    /\ \E b \in Builds :
        IF \E x \in 0..ow - 1, y \in 0..oh - 1 :
            LET i == glyphAt(processedImg, charset, x, y, b)
            IN  i < 0 \/ i >= Len(charset)
        THEN pc' = "panic" /\ err' = "index out of range" /\ result' = result
        ELSE /\ result' = render(processedImg, charset, ow, oh, 0, b)
             /\ pc' = "output"
             /\ err' = err
    /\ UNCHANGED <<args, opts, charset, img, ow, oh, processedImg, stdout, file,
                   lumVars, resizeVars>>

\* fmt.Println(s): s and a newline
Println(s) == s \o <<NewLine>>

\* src/main.go:190-208: the file named by --out (written whole, or the
\* write fails at opening it), or the standard output
WriteOutput ==
    /\ pc = "output"
    /\ IF Len(opts.Output) > 0
       THEN \E written \in BOOLEAN :
            IF written
            THEN /\ file' = [name |-> opts.Output, data |-> result]
                 /\ stdout' = Verbose(stdout, opts.Verbose, "Successfully wrote output")
                 /\ pc' = "done"
                 /\ err' = err
            ELSE pc' = "panic" /\ err' = "write" /\ UNCHANGED <<file, stdout>>
       ELSE /\ stdout' = Append(stdout, [kind |-> "text", text |-> Println(result)])
            /\ pc' = "done"
            /\ UNCHANGED <<file, err>>
    /\ UNCHANGED <<args, opts, charset, img, ow, oh, processedImg, result,
                   lumVars, resizeVars>>

Next ==
    \/ ParseFlags
    \/ CheckArgs
    \/ LookupCharset
    \/ OpenInput
    \/ DecodeImage
    \/ ResolveDimensions
    \/ Resize
    \/ Render
    \/ WriteOutput

Spec == Init /\ [][Next]_vars

(***************************************************************************)
(* The dimensions and resize on their own (src/main.go:152-165, 45-59),    *)
(* one loop iteration a step.  The sample of the source at (i, j) is a     *)
(* colour that names (i, j), so that two samples are equal only if they    *)
(* are the same pixel.                                                     *)
(***************************************************************************)
MaxW == 22

MaxH == 2

LabelImage(w, h) ==
    [X |-> w, Y |-> h,
     pix |-> [p \in (0..w - 1) \X (0..h - 1) |->
                 [R |-> p[1], G |-> p[2], B |-> 0, A |-> 255]]]

RECURSIVE DecimalString(_)
DecimalString(n) ==
    IF n < 10 THEN <<Digits[n + 1]>>
    ELSE DecimalString(n \div 10) \o <<Digits[(n % 10) + 1]>>

\* the values of --resize and --scale: every "WxH" up to the bounds and the
\* empty string without a scale, and the empty string with each scale
ResizeRequests ==
    ({DecimalString(w) \o <<"x">> \o DecimalString(h) : w \in 0..MaxW, h \in 0..MaxH}
        \cup {<<>>}) \X {[neg |-> FALSE, num |-> 0, den |-> 1]}
        \cup ({<<>>} \X Scales)

ResizeInit ==
    /\ rpc = "call"
    /\ \E w \in 1..MaxW, h \in 1..MaxH : rimg = LabelImage(w, h)
    /\ \E rq \in ResizeRequests : rvalue = rq[1] /\ rscale = rq[2]
    /\ rwidth = 0
    /\ rheight = 0
    /\ rx = 0
    /\ ry = 0
    /\ routput = NoImage
    /\ rreads = {}
    /\ rdivisors = {}
    /\ pc = "idle"
    /\ MainIdle
    /\ LumIdle

\* ow, oh (src/main.go:152-163) and the entry of resize(img, ow, oh): the
\* output image is allocated (src/main.go:46-47)
ResizeCall ==
    /\ rpc = "call"
    /\ LET parsed == parseResize(rvalue, rimg)
           dims   == resolve(parsed, rvalue, rimg, rscale)
       IN  IF parsed.err # "nil"
           THEN rpc' = "panic" /\ UNCHANGED <<rwidth, rheight, routput>>
           ELSE /\ rwidth' = dims.ow
                /\ rheight' = dims.oh
                /\ routput' = NewNRGBA(Rect(dims.ow, dims.oh))
                /\ rpc' = "loop"
    /\ UNCHANGED <<rimg, rvalue, rscale, rx, ry, rreads, rdivisors, mainVars, lumVars>>

\* the body of the inner loop (src/main.go:51-54)
ResizeBody ==
    /\ rpc = "loop"
    /\ rx < rwidth
    /\ ry < rheight
    /\ LET ix == SourceCoord(rx, rwidth, rimg.X)
           iy == SourceCoord(ry, rheight, rimg.Y)
       IN  /\ routput' = [routput EXCEPT !.pix[<<rx, ry>>] = At(rimg, ix, iy)]
           /\ rreads' = rreads \cup {<<ix, iy>>}
    /\ rdivisors' = rdivisors \cup {rwidth, rheight}
    /\ ry' = ry + 1
    /\ UNCHANGED <<rpc, rimg, rvalue, rscale, rwidth, rheight, rx, mainVars, lumVars>>

\* the inner loop ends: x++
ResizeNextColumn ==
    /\ rpc = "loop"
    /\ rx < rwidth
    /\ ry >= rheight
    /\ rx' = rx + 1
    /\ ry' = 0
    /\ UNCHANGED <<rpc, rimg, rvalue, rscale, rwidth, rheight, routput, rreads,
                   rdivisors, mainVars, lumVars>>

\* the outer loop ends: return output
ResizeReturn ==
    /\ rpc = "loop"
    /\ rx >= rwidth
    /\ rpc' = "done"
    /\ UNCHANGED <<rimg, rvalue, rscale, rwidth, rheight, rx, ry, routput, rreads,
                   rdivisors, mainVars, lumVars>>

ResizeNext == ResizeCall \/ ResizeBody \/ ResizeNextColumn \/ ResizeReturn

SpecResize == ResizeInit /\ [][ResizeNext]_vars

\* the loops leave what resize is defined to return
ResizeLoopsAgree == rpc = "done" => routput = resize(rimg, rwidth, rheight)

(***************************************************************************)
(* Properties                                                              *)
(***************************************************************************)
Ramp == ChararacterSets[Asciii]

White == [R |-> 255, G |-> 255, B |-> 255, A |-> 255]

\* |f - num/den| <= 2^-k, for a float64 f and naturals num and den
Within(f, num, den, k) ==
    LET t     == IF 0 - f.e > k THEN 0 - f.e ELSE k
        left  == BMul(BShl(f.m, f.e + t), BFromInt(den))
        right == BShl(BFromInt(num), t)
        tol   == BShl(BFromInt(den), t - k)
    IN  BLeq(left, BAdd(right, tol)) /\ BLeq(right, BAdd(left, tol))

\* C1: the glyph index computed for a pixel always lies within the ramp, so
\* that indexing the ramp never panics; a pixel of luminance 0 selects
\* index 0 and a pure white pixel selects the last index, N-1, never N.
C1_GlyphIndexInRamp ==
    /\ lpc # "panic"
    /\ lpc = "mapped" =>
        /\ lidx >= 0
        /\ lidx <= Len(Ramp) - 1
        /\ (RGBA(lcolor)[1] + RGBA(lcolor)[2] + RGBA(lcolor)[3] = 0 => lidx = 0)
        /\ (lcolor = White => lidx = Len(Ramp) - 1)

C1_Witness == lpc = "mapped" /\ lcolor = White /\ lidx = Len(Ramp) - 1

\* C9 as stated: the luminance lies in [0, 1] and, for a grey sample
\* r = g = b = v, equals the normalized v, float64(v) / 65535.
C9_GreyEqualsNormalized ==
    lpc = "mapped" =>
        LET rgba == RGBA(lcolor)
        IN  /\ FLeq(llum, FromInt(1))
            /\ (rgba[1] = rgba[2] /\ rgba[2] = rgba[3]
                    => FEq(llum, FDivInt(rgba[1], MaxUint16)))

\* C9 as amended: with r, g, b the 16-bit channels RGBA() returns, the
\* luminance lies in [0, 1] and is within 2^-50 of the exact weighted sum
\* (299 r + 587 g + 114 b) / (1000 * 65535), a function of r, g and b alone;
\* for a grey sample r = g = b = v it is within 2^-50 of v / 65535.
C9_LuminanceWithinTolerance ==
    lpc = "mapped" =>
        LET rgba == RGBA(lcolor)
        IN  /\ FLeq(llum, FromInt(1))
            /\ Within(llum, 299 * rgba[1] + 587 * rgba[2] + 114 * rgba[3],
                      1000 * MaxUint16, 50)
            /\ (rgba[1] = rgba[2] /\ rgba[2] = rgba[3]
                    => Within(llum, rgba[1], MaxUint16, 50))

C9_Witness ==
    /\ lpc = "mapped"
    /\ lcolor = White
    /\ ~FEq(llum, FromInt(1))
    /\ Within(llum, 1, 1, 50)

\* C10: resize never reads outside the source: every source coordinate it
\* computes lies in 0..Ws-1 and 0..Hs-1, for enlarging and for reducing; it
\* never divides by a target dimension of 0, and with a target width or
\* height of 0 it computes no source coordinate at all.
C10_ReadsInsideSource ==
    /\ \A p \in rreads :
        /\ p[1] >= 0 /\ p[1] <= rimg.X - 1
        /\ p[2] >= 0 /\ p[2] <= rimg.Y - 1
    /\ 0 \notin rdivisors
    /\ (rpc \in {"loop", "done"} /\ (rwidth = 0 \/ rheight = 0))
            => rreads = {} /\ rdivisors = {}

C10_Witness ==
    /\ rpc = "done"
    /\ rwidth > rimg.X
    /\ rheight >= 1
    /\ rheight < rimg.Y
    /\ Cardinality(rreads) = rimg.X

\* C3: resize returns a grid of exactly Wt columns and Ht rows whose sample
\* at (x, y) is the source sample at (floor(x*Ws/Wt), floor(y*Hs/Ht)), for
\* every target size Wt, Ht > 0.
C3_NearestNeighbour ==
    (rpc = "done" /\ rwidth > 0 /\ rheight > 0) =>
        /\ routput.X = rwidth
        /\ routput.Y = rheight
        /\ \A x \in 0..rwidth - 1, y \in 0..rheight - 1 :
            routput.pix[<<x, y>>]
                = rimg.pix[<<(x * rimg.X) \div rwidth, (y * rimg.Y) \div rheight>>]

\* C8: with no dimension spec and no scale factor the target size is the
\* source size, and resize returns a grid equal to the source sample for
\* sample.
C8_IdentityResize ==
    (rpc = "done" /\ rvalue = <<>> /\ rscale.num = 0) =>
        /\ rwidth = rimg.X
        /\ rheight = rimg.Y
        /\ routput.pix = rimg.pix

\* a text of h lines of w characters each, a newline between two lines and
\* none after the last; the empty text when there is no line
LinesOf(text, w, h) ==
    LET cols == IF w < 0 THEN 0 ELSE w
    IN  IF h <= 0 THEN text = <<>>
        ELSE /\ Len(text) = h * cols + (h - 1)
             /\ \A i \in 1..Len(text) : (text[i] = NewLine) <=> (i % (cols + 1) = 0)

TextsOnStdout == {i \in 1..Len(stdout) : stdout[i].kind = "text"}

NoRenderedText == file = <<>> /\ TextsOnStdout = {}

\* C2 as stated: what the output sink receives, the file or the standard
\* output, is Ht lines of Wt characters with a separator between two lines
\* and never one after the last.
C2_SinkReceivesLines ==
    /\ file # <<>> => LinesOf(file.data, ow, oh)
    /\ \A i \in TextsOnStdout : LinesOf(stdout[i].text, ow, oh)

\* C2 as amended: the rendered text is Ht lines of Wt characters with a
\* separator between two lines and none after the last; a file receives
\* exactly that text, and the standard output receives it followed by one
\* more newline.
C2_RenderedLines ==
    /\ pc \in {"output", "done"} => LinesOf(result, ow, oh)
    /\ file # <<>> => file.data = result /\ LinesOf(file.data, ow, oh)
    /\ \A i \in TextsOnStdout :
        /\ stdout[i].text = result \o <<NewLine>>
        /\ LinesOf(result, ow, oh)

C2_Witness ==
    /\ pc = "done"
    /\ ow = 2
    /\ oh = 2
    /\ TextsOnStdout # {}
    /\ Len(result) = 5
    /\ result[3] = NewLine

\* floor of size * scale for a positive scale, the truncation towards zero
\* for a negative one; exact for the scales of the model
ScaledExactly(size, scale) ==
    IF scale.neg THEN 0 - ((size * scale.num) \div scale.den)
    ELSE (size * scale.num) \div scale.den

\* C4 as stated: an explicit "WxH" decides the target size, also when a
\* scale is given as well; otherwise a scale s > 0 gives (floor(Ws*s),
\* floor(Hs*s)); otherwise the target size is the source size.
C4_SpecBeforeScale ==
    pc = "resize" =>
        IF opts.Resize # <<>>
        THEN /\ ow = ParseUint(SplitN2(opts.Resize, "x")[1]).val
             /\ oh = ParseUint(SplitN2(opts.Resize, "x")[2]).val
        ELSE IF opts.Scale.num # 0 /\ ~opts.Scale.neg
        THEN /\ ow = ScaledExactly(img.X, opts.Scale)
             /\ oh = ScaledExactly(img.Y, opts.Scale)
        ELSE ow = img.X /\ oh = img.Y

\* C4 as amended: a scale s # 0 decides the target size, (int(Ws*s),
\* int(Hs*s)) truncated towards zero, also when a well-formed "WxH" is given
\* as well; otherwise an explicit "WxH" gives (W, H); otherwise the target
\* size is the source size.
C4_ScaleBeforeSpec ==
    pc = "resize" =>
        IF opts.Scale.num # 0
        THEN /\ ow = ScaledExactly(img.X, opts.Scale)
             /\ oh = ScaledExactly(img.Y, opts.Scale)
        ELSE IF opts.Resize # <<>>
        THEN /\ ow = ParseUint(SplitN2(opts.Resize, "x")[1]).val
             /\ oh = ParseUint(SplitN2(opts.Resize, "x")[2]).val
        ELSE ow = img.X /\ oh = img.Y

C4_Witness ==
    /\ pc = "resize"
    /\ opts.Resize = <<"2", "x", "2">>
    /\ opts.Scale = [neg |-> FALSE, num |-> 1, den |-> 2]
    /\ img.X = 2
    /\ ow = 1

\* a non-empty dimension spec that is malformed: no lowercase x, or a width
\* part (before the first x) or a height part (after it) that is empty or
\* holds a character that is no decimal digit
DecimalDigits == {"0", "1", "2", "3", "4", "5", "6", "7", "8", "9"}

Malformed(value) ==
    /\ value # <<>>
    /\ \/ \A i \in 1..Len(value) : value[i] # "x"
       \/ LET first == CHOOSE i \in 1..Len(value) :
                          value[i] = "x" /\ \A j \in 1..i - 1 : value[j] # "x"
          IN  \/ first = 1
              \/ first = Len(value)
              \/ \E j \in 1..Len(value) : j # first /\ value[j] \notin DecimalDigits

InputsValid ==
    /\ Len(args) >= 1
    /\ \/ HasSuffix(args[1], <<".", "p", "n", "g">>)
       \/ HasSuffix(args[1], <<".", "j", "p", "g">>)
       \/ HasSuffix(args[1], <<".", "j", "p", "e", "g">>)
    /\ opts.Charset \in DOMAIN ChararacterSets
    /\ img # NoImage
    /\ ~Malformed(opts.Resize)

C6_MalformedSpecFails ==
    (opts # <<>> /\ Malformed(opts.Resize)) =>
        /\ pc \notin {"resize", "render", "output", "done"}
        /\ ow = 0 /\ oh = 0
        /\ NoRenderedText
        /\ img # NoImage => parseResize(opts.Resize, img).err # "nil"
        /\ img # NoImage /\ pc # "dims" => pc = "panic"

C6_Witness ==
    /\ pc = "panic"
    /\ err = "invalid resize value"
    /\ opts.Resize = <<"2", "0", "0">>
    /\ img # NoImage

====
